---- MODULE Spec2Model ----
(***************************************************************************)
(* Registration builders and resolve-function generation of awilix         *)
(* (src/lib/registrations.js): asValue / asFunction / asClass, the fluid   *)
(* interface, the injector overlay, generateResolve and parseDependencies. *)
(*                                                                         *)
(* Source text is modelled as a sequence of tokens.  Every token is either *)
(* one delimiter character ( ) { } , or one whitespace character, or a     *)
(* word that contains none of them, so the regular expressions of the      *)
(* source act on tokens exactly as they act on characters.                 *)
(***************************************************************************)
EXTENDS Integers, Sequences, FiniteSets, TLC

VARIABLES reg, ret, last, nextId, src, deps, pstate

vars == <<reg, ret, last, nextId, src, deps, pstate>>

(***************************************************************************)
(* Bounds                                                                  *)
(***************************************************************************)
\* registrations built in one behaviour (registration identities 1..MaxBuilds)
MaxBuilds == 2
\* longest declared parameter list of a callable whose text is parsed
MaxParams == 2

(***************************************************************************)
(* JavaScript values                                                       *)
(***************************************************************************)
Undefined == "undefined"

TRANSIENT == "TRANSIENT"
SCOPED == "SCOPED"
SINGLETON == "SINGLETON"
Lifetimes == {TRANSIENT, SCOPED, SINGLETON}

CLASSIC == "CLASSIC"
PROXY == "PROXY"
ResolutionModes == {CLASSIC, PROXY}

\* JavaScript truthiness of the values the model uses (strings and undefined)
Truthy(v) == v # Undefined /\ v # ""

\* a || b
Or(a, b) == IF Truthy(a) THEN a ELSE b

(***************************************************************************)
(* Sequences of tokens                                                     *)
(***************************************************************************)
Min(S) == CHOOSE i \in S : \A j \in S : i <= j
Max(S) == CHOOSE i \in S : \A j \in S : j <= i

RECURSIVE Join(_)
\* the string a sequence of tokens spells
Join(toks) == IF toks = <<>> THEN "" ELSE toks[1] \o Join(Tail(toks))

\* \s of a regular expression
IsSpace(t) == t \in {" ", "\n", "\t"}

Includes(toks, t) == \E i \in 1..Len(toks) : toks[i] = t

(***************************************************************************)
(* func.toString(): the text of a callable                                 *)
(*   form          "function"    function f(<params>) {<body>}             *)
(*                 "arrow"       (<params>) => <body>                      *)
(*                 "bareArrow"   x => <body>                               *)
(*                 "class"       class Foo { constructor(<params>) {<body>} } *)
(*                 "classNoCtor" class Foo { <body> }                      *)
(*   params        the declared parameter names                            *)
(*   destructured  the parameters are one destructuring pattern {a, b}     *)
(*   pad           whitespace is written inside the parentheses and        *)
(*                 around the commas                                       *)
(*   body          the tokens of the body                                  *)
(***************************************************************************)
ParenForms == {"function", "arrow", "class"}

RECURSIVE JoinWith(_, _)
JoinWith(names, sep) ==
  IF names = <<>> THEN <<>>
  ELSE IF Len(names) = 1 THEN <<names[1]>>
  ELSE <<names[1]>> \o sep \o JoinWith(Tail(names), sep)

ParamText(c) ==
  LET sep   == IF c.pad THEN <<" ", ",", " ">> ELSE <<",">>
      names == JoinWith(c.params, sep)
      inner == IF c.destructured THEN <<"{">> \o names \o <<"}">> ELSE names
  IN  IF c.pad THEN <<" ">> \o inner \o (IF inner = <<>> THEN <<>> ELSE <<" ">>)
      ELSE inner

FunctionToString(c) ==
  CASE c.form = "function" ->
         <<"function", " ", "f", "(">> \o ParamText(c) \o <<")", " ", "{">>
           \o c.body \o <<"}">>
    [] c.form = "arrow" ->
         <<"(">> \o ParamText(c) \o <<")", " ", "=>", " ">> \o c.body
    [] c.form = "bareArrow" ->
         <<c.params[1], " ", "=>", " ">> \o c.body
    [] c.form = "class" ->
         <<"class", " ", "Foo", " ", "{", " ", "constructor", "(">>
           \o ParamText(c) \o <<")", " ", "{">> \o c.body \o <<"}", " ", "}">>
    [] c.form = "classNoCtor" ->
         <<"class", " ", "Foo", " ", "{", " ">> \o c.body \o <<" ", "}">>

(***************************************************************************)
(* DEPS_EXPR = /(\(\s*([^)]+?)\s*\)|\(\))/  and  parseDependencies         *)
(***************************************************************************)
\* index of the first ")" after position i, 0 if there is none
NextClose(text, i) ==
  LET S == {k \in (i + 1)..Len(text) : text[k] = ")"}
  IN  IF S = {} THEN 0 ELSE Min(S)

\* group 2 of the first alternative over the text between "(" and the next ")":
\* \s* is greedy and [^)]+? is lazy, so the capture is the content without its
\* leading and trailing whitespace; when the content is whitespace only, \s*
\* gives back one character and the capture is the last whitespace character
Capture(content) ==
  LET nonSpace == {j \in 1..Len(content) : ~IsSpace(content[j])}
  IN  IF nonSpace = {} THEN <<content[Len(content)]>>
      ELSE SubSeq(content, Min(nonSpace), Max(nonSpace))

\* the match of DEPS_EXPR that starts at position i:
\* [ok, g2 (group 2 matched), text of group 2]
MatchAt(text, i) ==
  LET k == NextClose(text, i)
  IN  IF text[i] # "(" \/ k = 0
        THEN [ok |-> FALSE, g2 |-> FALSE, cap |-> <<>>]
      ELSE IF k >= i + 2
        THEN [ok |-> TRUE, g2 |-> TRUE, cap |-> Capture(SubSeq(text, i + 1, k - 1))]
      ELSE [ok |-> TRUE, g2 |-> FALSE, cap |-> <<>>]

\* DEPS_EXPR.exec(text): the leftmost match, or null (ok = FALSE)
DepsExprExec(text) ==
  LET S == {i \in 1..Len(text) : MatchAt(text, i).ok}
  IN  IF S = {} THEN [ok |-> FALSE, g2 |-> FALSE, cap |-> <<>>]
      ELSE MatchAt(text, Min(S))

RECURSIVE SplitCommas(_)
\* the pieces of a token sequence between its commas
SplitCommas(toks) ==
  LET S == {i \in 1..Len(toks) : toks[i] = ","}
  IN  IF S = {} THEN <<toks>>
      ELSE <<SubSeq(toks, 1, Min(S) - 1)>>
             \o SplitCommas(SubSeq(toks, Min(S) + 1, Len(toks)))

RECURSIVE DropSpaceLeft(_)
DropSpaceLeft(toks) ==
  IF toks # <<>> /\ IsSpace(toks[1]) THEN DropSpaceLeft(Tail(toks)) ELSE toks

RECURSIVE DropSpaceRight(_)
DropSpaceRight(toks) ==
  IF toks # <<>> /\ IsSpace(toks[Len(toks)])
    THEN DropSpaceRight(SubSeq(toks, 1, Len(toks) - 1))
    ELSE toks

\* str.split(/\s*,\s*/): each separator takes the whitespace on both sides of
\* its comma, so a piece keeps leading whitespace only when it is the first
\* piece and trailing whitespace only when it is the last
SplitDeps(toks) ==
  LET pieces == SplitCommas(toks)
      n      == Len(pieces)
  IN  [i \in 1..n |->
         LET l == IF i = 1 THEN pieces[i] ELSE DropSpaceLeft(pieces[i])
         IN  Join(IF i = n THEN l ELSE DropSpaceRight(l))]

parseDependencies_NoBraceCheck(func) ==
  LET args == DepsExprExec(FunctionToString(func))
  IN  IF args.ok /\ args.g2 /\ args.cap # <<>>
        THEN SplitDeps(args.cap)
        ELSE <<>>

parseDependencies(func) ==
  LET args == DepsExprExec(FunctionToString(func))
  IN  IF args.ok /\ args.g2 /\ args.cap # <<>>
         /\ ~Includes(args.cap, "{") /\ ~Includes(args.cap, "}")
        THEN SplitDeps(args.cap)
        ELSE <<>>

(***************************************************************************)
(* Values, outcomes and the events of one resolve call                     *)
(***************************************************************************)
Val(k, x) == [k |-> k, x |-> x]
UndefinedVal == Val("undefined", "")

Return(v) == [tag |-> "return", err |-> "", info |-> <<>>, val |-> v]
Throw(e, info) == [tag |-> "throw", err |-> e, info |-> info, val |-> UndefinedVal]

\* an observable step of a resolve call: a call of the injector (name is the
\* name whose lookup made it), a call of container.resolve(name), or the
\* invocation of the target with args
Event(ev, name, args) == [ev |-> ev, name |-> name, args |-> args]

RECURSIVE ArgKeys(_)
ArgKeys(vs) ==
  IF vs = <<>> THEN ""
  ELSE vs[1].k \o ":" \o vs[1].x \o ";" \o ArgKeys(Tail(vs))

(***************************************************************************)
(* The container (an external collaborator): options.resolutionMode,       *)
(* resolve(name), which fails for a name that is not registered, and       *)
(* cradle, whose property reads go to resolve                              *)
(***************************************************************************)
Containers ==
  [mode : ResolutionModes \cup {Undefined}, known : {{}, {"a"}, {"a", "b"}}]

NoContainer == [mode |-> Undefined, known |-> {}]

ContainerResolve(c, name, tr) ==
  [trace |-> Append(tr, Event("resolve", name, <<>>)),
   out   |-> IF name \in c.known
               THEN Return(Val("resolved", name))
               ELSE Throw("AwilixResolutionError", <<name>>)]

ContainerCradle == Val("cradle", "")

(***************************************************************************)
(* Injectors (user code): container => object literal of local values      *)
(***************************************************************************)
Injectors == {"localsB", "alternating", "throwing"}

\* the names every object literal inherits from Object.prototype
ObjectPrototypeKeys ==
  {"constructor", "hasOwnProperty", "isPrototypeOf", "propertyIsEnumerable",
   "toLocaleString", "toString", "valueOf", "__proto__"}

LocalsA == [n \in {"a"} |-> Val("local", "42")]
LocalsB == [n \in {"b"} |-> Val("local", "100")]

InjectorCalls(tr) == Cardinality({i \in 1..Len(tr) : tr[i].ev = "injector"})

\* injector(container); "alternating" returns {a: 42} on its first, third, ...
\* call of a resolution and {b: 100} on the others
InjectorCall(inj, c, tr) ==
  CASE inj = "localsB" -> [tag |-> "return", own |-> LocalsB]
    [] inj = "alternating" ->
         [tag |-> "return",
          own |-> IF InjectorCalls(tr) % 2 = 0 THEN LocalsA ELSE LocalsB]
    [] inj = "throwing" -> [tag |-> "throw", own |-> <<>>]

\* name in locals: own and inherited properties
In(name, own) == name \in DOMAIN own \/ name \in ObjectPrototypeKeys

\* locals[name]
Get(own, name) ==
  IF name \in DOMAIN own THEN own[name] ELSE Val("Object.prototype", name)

(***************************************************************************)
(* wrapWithInjector / createInjectorProxy                                  *)
(***************************************************************************)
wrappedResolve(c, injector, name, tr) ==
  LET locals == InjectorCall(injector, c, tr)
      tr1    == Append(tr, Event("injector", name, <<>>))
  IN  IF locals.tag = "throw"
        THEN [trace |-> tr1, out |-> Throw("InjectorError", <<injector>>)]
      ELSE IF In(name, locals.own)
        THEN [trace |-> tr1, out |-> Return(Get(locals.own, name))]
      ELSE ContainerResolve(c, name, tr1)

\* new Proxy({}, {get: (target, property) => wrappedResolve(property)})
createInjectorProxy(injector) == Val("injectorProxy", injector)

\* cradleView[name], for the container's cradle or an injector proxy
CradleGet(view, c, name, tr) ==
  IF view.k = "injectorProxy"
    THEN wrappedResolve(c, view.x, name, tr)
    ELSE ContainerResolve(c, name, tr)

(***************************************************************************)
(* Targets (user code) handed to asFunction / asClass.  Besides its text a *)
(* target has a behaviour: uses, the names its body reads from the cradle  *)
(* it is given, in order, and throws, whether its body ends by throwing.   *)
(***************************************************************************)
Target(form, params, destructured, uses, throws) ==
  [typeof |-> "function", form |-> form, params |-> params,
   destructured |-> destructured, pad |-> FALSE, body |-> <<>>,
   uses |-> uses, throws |-> throws]

NotInvocable(type) ==
  [typeof |-> type, form |-> "none", params |-> <<>>, destructured |-> FALSE,
   pad |-> FALSE, body |-> <<>>, uses |-> <<>>, throws |-> FALSE]

NoTarget == NotInvocable(Undefined)

Functions ==
  { Target("function", <<"a", "b">>, FALSE, <<>>, FALSE),        \* function f(a,b) {}
    Target("function", <<>>, FALSE, <<>>, FALSE),               \* function f() {}
    Target("arrow", <<"a", "b">>, TRUE, <<"a", "b">>, FALSE),    \* ({a,b}) => ..
    Target("function", <<"a">>, FALSE, <<>>, TRUE),             \* function f(a) { throw }
    Target("function", <<"cradle">>, FALSE, <<"b", "toString">>, FALSE) }
                                          \* reads cradle.b, then cradle.toString

Classes ==
  { Target("class", <<"a", "b">>, FALSE, <<>>, FALSE),          \* constructor(a,b) {}
    Target("class", <<"b">>, TRUE, <<"b">>, FALSE) }            \* constructor({b}) {}

NonFunctions == {NotInvocable("string"), NotInvocable(Undefined)}

\* isFunction(val): typeof val === 'function'
isFunction(val) == val.typeof = "function"

\* new AwilixNotAFunctionError(functionName, expectedType, givenType)
AwilixNotAFunctionError(functionName, expectedType, givenType) ==
  Throw("AwilixNotAFunctionError", <<functionName, expectedType, givenType>>)

RECURSIVE BodyReads(_, _, _, _, _, _)
\* the body's reads of names[i..] from the cradle view it was given
BodyReads(view, names, i, c, tr, acc) ==
  IF i > Len(names) THEN [trace |-> tr, out |-> Return(UndefinedVal), vals |-> acc]
  ELSE LET r == CradleGet(view, c, names[i], tr)
       IN  IF r.out.tag = "throw"
             THEN [trace |-> r.trace, out |-> r.out, vals |-> acc]
             ELSE BodyReads(view, names, i + 1, c, r.trace, Append(acc, r.out.val))

IsCradleView(v) == v.k \in {"cradle", "injectorProxy"}

\* fn(...args), or new Type(...args) through the newClass adapter of asClass
Invoke(fn, construct, args, c, tr) ==
  LET tr1 == Append(tr, Event("invoke", "", args))
  IN  IF args = <<>> /\ (fn.destructured \/ fn.uses # <<>>)
        \* destructuring, or reading a property of, an argument that is undefined
        THEN [trace |-> tr1, out |-> Throw("TypeError", <<>>)]
      ELSE
        LET reads == IF args # <<>> /\ IsCradleView(args[1])
                       THEN BodyReads(args[1], fn.uses, 1, c, tr1, <<>>)
                       ELSE [trace |-> tr1, out |-> Return(UndefinedVal), vals |-> <<>>]
        IN  IF reads.out.tag = "throw"
              THEN [trace |-> reads.trace, out |-> reads.out]
            ELSE IF fn.throws
              THEN [trace |-> reads.trace, out |-> Throw("TargetError", <<>>)]
            ELSE [trace |-> reads.trace,
                  out   |-> Return(Val(IF construct THEN "instance" ELSE "result",
                                       ArgKeys(args \o reads.vals)))]

(***************************************************************************)
(* generateResolve                                                         *)
(***************************************************************************)
\* the build-time part: the dependency names of dependencyParseTarget || fn
generateResolve(fn, dependencyParseTarget) ==
  parseDependencies(IF dependencyParseTarget.typeof = Undefined
                      THEN fn ELSE dependencyParseTarget)

ResolutionModeOf_ContainerFirst(this, c) ==
  Or(c.mode, Or(this.resolutionMode, PROXY))

\* this.resolutionMode || container.options.resolutionMode || ResolutionMode.PROXY
ResolutionModeOf(this, c) ==
  Or(this.resolutionMode, Or(c.mode, PROXY))

CradleOf_NoInjector(this) == ContainerCradle

\* this.injector ? createInjectorProxy(container, this.injector) : container.cradle
CradleOf(this) ==
  IF Truthy(this.injector) THEN createInjectorProxy(this.injector) ELSE ContainerCradle

\* one element of dependencies.map(resolve)
ResolveOne(this, c, name, tr) ==
  IF Truthy(this.injector)
    THEN wrappedResolve(c, this.injector, name, tr)
    ELSE ContainerResolve(c, name, tr)

RECURSIVE MapFrom(_, _, _, _, _)
MapFrom(this, c, i, tr, acc) ==
  IF i > Len(this.dependencies)
    THEN [trace |-> tr, out |-> Return(UndefinedVal), vals |-> acc]
  ELSE LET r == ResolveOne(this, c, this.dependencies[i], tr)
       IN  IF r.out.tag = "throw"
             THEN [trace |-> r.trace, out |-> r.out, vals |-> acc]
             ELSE MapFrom(this, c, i + 1, r.trace, Append(acc, r.out.val))

RECURSIVE MapDownFrom(_, _, _, _, _)
MapDownFrom(this, c, i, tr, acc) ==
  IF i < 1
    THEN [trace |-> tr, out |-> Return(UndefinedVal), vals |-> acc]
  ELSE LET r == ResolveOne(this, c, this.dependencies[i], tr)
       IN  IF r.out.tag = "throw"
             THEN [trace |-> r.trace, out |-> r.out, vals |-> acc]
             ELSE MapDownFrom(this, c, i - 1, r.trace, <<r.out.val>> \o acc)

RECURSIVE MapAllFrom(_, _, _, _, _, _)
MapAllFrom(this, c, i, tr, acc, failed) ==
  IF i > Len(this.dependencies)
    THEN [trace |-> tr, out |-> failed, vals |-> acc]
  ELSE LET r == ResolveOne(this, c, this.dependencies[i], tr)
       IN  MapAllFrom(this, c, i + 1, r.trace, Append(acc, r.out.val),
                      IF failed.tag = "throw" THEN failed ELSE r.out)

MapDependencies_Reversed(this, c) ==
  MapDownFrom(this, c, Len(this.dependencies), <<>>, <<>>)

MapDependencies_NoAbort(this, c) ==
  MapAllFrom(this, c, 1, <<>>, <<>>, Return(UndefinedVal))

\* dependencies.map(resolve): in order, ended by the first lookup that throws
MapDependencies(this, c) == MapFrom(this, c, 1, <<>>, <<>>)

\* the generated resolve(container), bound to the registration this
resolve(this, c) ==
  LET resolutionMode == ResolutionModeOf(this, c)
      construct      == this.kind = "class"
  IN  IF resolutionMode # CLASSIC
        THEN Invoke(this.fn, construct, <<CradleOf(this)>>, c, <<>>)
      ELSE IF Len(this.dependencies) > 0
        THEN LET children == MapDependencies(this, c)
             IN  IF children.out.tag = "throw"
                   THEN [trace |-> children.trace, out |-> children.out]
                   ELSE Invoke(this.fn, construct, children.vals, c, children.trace)
      ELSE Invoke(this.fn, construct, <<>>, c, <<>>)

(***************************************************************************)
(* Options objects and registrations                                       *)
(***************************************************************************)
\* an options argument: omitted (given = FALSE) or an object literal obj, a
\* function from its own keys to their values; a key may hold undefined
Opts(obj) == [given |-> TRUE, obj |-> obj]
NoOpts == [given |-> FALSE, obj |-> <<>>]

OptsSet ==
  { NoOpts,
    Opts(<<>>),
    Opts([k \in {"lifetime"} |-> Undefined]),
    Opts([k \in {"lifetime", "resolutionMode"} |->
            IF k = "lifetime" THEN SCOPED ELSE CLASSIC]),
    Opts([k \in {"injector", "resolutionMode"} |->
            IF k = "injector" THEN "localsB" ELSE PROXY]) }

\* o.key of an object literal
Prop(o, key) == IF key \in DOMAIN o THEN o[key] ELSE Undefined

\* Object.assign({}, defaults, input): own keys of input, undefined-valued
\* ones included, overwrite those of defaults; an omitted input adds nothing
makeOptions(defaults, input) ==
  IF ~input.given THEN defaults
  ELSE [k \in DOMAIN defaults \cup DOMAIN input.obj |->
          IF k \in DOMAIN input.obj THEN input.obj[k] ELSE defaults[k]]

Defaults == [k \in {"lifetime"} |-> TRANSIENT]

Registration(id, kind, fn, dependencies, value, lifetime, injector, resolutionMode) ==
  [id |-> id, kind |-> kind, fn |-> fn, dependencies |-> dependencies,
   value |-> value, lifetime |-> lifetime, injector |-> injector,
   resolutionMode |-> resolutionMode]

NoReg ==
  Registration(0, "none", NoTarget, <<>>, UndefinedVal, Undefined, Undefined, Undefined)

\* what a builder call does: the registration it returns (built), or the
\* error it throws, and whether it ran parseDependencies
Built(r) ==
  [built |-> TRUE, reg |-> r, parsed |-> r.kind # "value",
   out |-> Return(Val("registration", ToString(r.id)))]
Failed(e) == [built |-> FALSE, reg |-> NoReg, parsed |-> FALSE, out |-> e]

Values == {Val("value", "v1"), Val("value", "v2")}

asValue(value, id) ==
  Built(Registration(id, "value", NoTarget, <<>>, value, TRANSIENT, Undefined, Undefined))

asFunction_KindAndTypeSwapped(fn, opts, id) ==
  IF ~isFunction(fn)
    THEN Failed(AwilixNotAFunctionError("asFunction", fn.typeof, "function"))
  ELSE
    LET o == makeOptions(Defaults, opts)
    IN  Built(Registration(id, "function", fn, generateResolve(fn, NoTarget),
                           UndefinedVal, Prop(o, "lifetime"), Prop(o, "injector"),
                           Prop(o, "resolutionMode")))

asFunction(fn, opts, id) ==
  IF ~isFunction(fn)
    THEN Failed(AwilixNotAFunctionError("asFunction", "function", fn.typeof))
  ELSE
    LET o == makeOptions(Defaults, opts)
    IN  Built(Registration(id, "function", fn, generateResolve(fn, NoTarget),
                           UndefinedVal, Prop(o, "lifetime"), Prop(o, "injector"),
                           Prop(o, "resolutionMode")))

\* the registration's fn is the newClass adapter (kind = "class"); the
\* dependencies are parsed from Type.prototype.constructor, the class itself
asClass(Type, opts, id) ==
  IF ~isFunction(Type)
    THEN Failed(AwilixNotAFunctionError("asClass", "class", Type.typeof))
  ELSE
    LET o == makeOptions(Defaults, opts)
    IN  Built(Registration(id, "class", Type, generateResolve(Type, Type),
                           UndefinedVal, Prop(o, "lifetime"), Prop(o, "injector"),
                           Prop(o, "resolutionMode")))

(***************************************************************************)
(* makeFluidInterface: each setter gives the object after the call and the *)
(* identity of the object it returns                                       *)
(***************************************************************************)
setLifetime(obj, value) ==
  [obj |-> [obj EXCEPT !.lifetime = value], returns |-> obj.id]

setResolutionMode_ClearsInjector(obj, value) ==
  [obj |-> [obj EXCEPT !.resolutionMode = value, !.injector = Undefined],
   returns |-> obj.id]

setResolutionMode(obj, value) ==
  [obj |-> [obj EXCEPT !.resolutionMode = value], returns |-> obj.id]

inject(obj, injector) ==
  [obj |-> [obj EXCEPT !.injector = injector], returns |-> obj.id]

transient(obj) == setLifetime(obj, TRANSIENT)
scoped(obj) == setLifetime(obj, SCOPED)
singleton(obj) == setLifetime(obj, SINGLETON)
proxy(obj) == setResolutionMode(obj, PROXY)
classic(obj) == setResolutionMode(obj, CLASSIC)

\* asValue returns no fluid interface
HasFluidInterface(r) == r.kind \in {"function", "class"}

(***************************************************************************)
(* State                                                                   *)
(*   reg     the registration the program holds (NoReg before a build)     *)
(*   ret     what the last call returned or threw                          *)
(*   last    the last call: its name, its inputs, the registration before  *)
(*           it, whether it parsed dependencies, the events of a resolve   *)
(*   nextId  the identity the next registration built gets                 *)
(*   src, deps, pstate   a callable, and its parsed dependency names       *)
(***************************************************************************)
Call(op, fn, opts, value, c, pre, parsed, trace) ==
  [op |-> op, fn |-> fn, opts |-> opts, value |-> value, container |-> c,
   pre |-> pre, parsed |-> parsed, trace |-> trace]

NoCall == Call("none", NoTarget, NoOpts, "", NoContainer, NoReg, FALSE, <<>>)

Init ==
  /\ reg = NoReg
  /\ ret = Return(UndefinedVal)
  /\ last = NoCall
  /\ nextId = 1
  /\ src = NoTarget
  /\ deps = <<>>
  /\ pstate = "idle"

Build(op, b, fn, opts, value) ==
  /\ reg' = IF b.built THEN b.reg ELSE reg
  /\ nextId' = IF b.built THEN nextId + 1 ELSE nextId
  /\ ret' = b.out
  /\ last' = Call(op, fn, opts, value, NoContainer, NoReg, b.parsed, <<>>)
  /\ UNCHANGED <<src, deps, pstate>>

AsValue ==
  \E v \in Values :
    /\ nextId <= MaxBuilds
    /\ Build("asValue", asValue(v, nextId), NoTarget, NoOpts, v.x)

AsFunction ==
  \E fn \in Functions \cup NonFunctions, opts \in OptsSet :
    /\ nextId <= MaxBuilds
    /\ Build("asFunction", asFunction(fn, opts, nextId), fn, opts, "")

AsClass ==
  \E Type \in Classes \cup NonFunctions, opts \in OptsSet :
    /\ nextId <= MaxBuilds
    /\ Build("asClass", asClass(Type, opts, nextId), Type, opts, "")

Fluid(op, value, r) ==
  /\ HasFluidInterface(reg)
  /\ reg' = r.obj
  /\ ret' = Return(Val("registration", ToString(r.returns)))
  /\ last' = Call(op, NoTarget, NoOpts, value, NoContainer, reg, FALSE, <<>>)
  /\ UNCHANGED <<nextId, src, deps, pstate>>

SetLifetime == \E value \in Lifetimes : Fluid("setLifetime", value, setLifetime(reg, value))
Transient == Fluid("transient", "", transient(reg))
Scoped == Fluid("scoped", "", scoped(reg))
Singleton == Fluid("singleton", "", singleton(reg))
SetResolutionMode ==
  \E value \in ResolutionModes \cup {Undefined} :
    Fluid("setResolutionMode", value, setResolutionMode(reg, value))
Proxy == Fluid("proxy", "", proxy(reg))
Classic == Fluid("classic", "", classic(reg))
Inject ==
  \E injector \in Injectors \cup {Undefined} :
    Fluid("inject", injector, inject(reg, injector))

\* registration.resolve(container)
Resolve ==
  \E c \in Containers :
    /\ reg.kind # "none"
    /\ LET r == IF reg.kind = "value"
                  THEN [trace |-> <<>>, out |-> Return(reg.value)]
                  ELSE resolve(reg, c)
       IN  /\ ret' = r.out
           /\ last' = Call("resolve", NoTarget, NoOpts, "", c, reg, FALSE, r.trace)
    /\ UNCHANGED <<reg, nextId, src, deps, pstate>>

Next ==
  \/ AsValue \/ AsFunction \/ AsClass
  \/ SetLifetime \/ Transient \/ Scoped \/ Singleton
  \/ SetResolutionMode \/ Proxy \/ Classic \/ Inject
  \/ Resolve

Spec == Init /\ [][Next]_vars

(***************************************************************************)
(* Dependency-name discovery on its own: a callable is drawn, then parsed  *)
(***************************************************************************)
ParamNames == {"a", "b"}

ParamLists == UNION {[1..n -> ParamNames] : n \in 0..MaxParams}

\* expression bodies: nothing, a call with arguments, a call without
Bodies == {<<>>, <<"g", "(", "b", ",", "a", ")">>, <<"g", "(", ")">>}

\* class bodies without a constructor: nothing, or one method m(a) {}
ClassBodies == {<<>>, <<"m", "(", "a", ")", " ", "{", "}">>}

Callable(form, params, destructured, pad, body) ==
  [typeof |-> "function", form |-> form, params |-> params,
   destructured |-> destructured, pad |-> pad, body |-> body,
   uses |-> <<>>, throws |-> FALSE]

Callables ==
  {Callable(f, ps, d, p, b) :
     f \in ParenForms, ps \in ParamLists, d \in BOOLEAN, p \in BOOLEAN, b \in Bodies}
  \cup {Callable("bareArrow", <<x>>, FALSE, FALSE, b) : x \in ParamNames, b \in Bodies}
  \cup {Callable("classNoCtor", <<>>, FALSE, FALSE, b) : b \in ClassBodies}

InitParse ==
  /\ reg = NoReg
  /\ ret = Return(UndefinedVal)
  /\ last = NoCall
  /\ nextId = 1
  /\ src \in Callables
  /\ deps = <<>>
  /\ pstate = "input"

ParseDependencies ==
  /\ pstate = "input"
  /\ deps' = parseDependencies(src)
  /\ pstate' = "parsed"
  /\ UNCHANGED <<reg, ret, last, nextId, src>>

NextParse == ParseDependencies

SpecParse == InitParse /\ [][NextParse]_vars

(***************************************************************************)
(* What a state shows of the last call                                     *)
(***************************************************************************)
FluidOps ==
  {"setLifetime", "transient", "scoped", "singleton",
   "setResolutionMode", "proxy", "classic", "inject"}

\* the last call was resolve(container) of a registration built by
\* asFunction or asClass
IsResolve == last.op = "resolve" /\ last.pre.kind \in {"function", "class"}

\* the precedence the specification states: registration, container, Proxy
SaysClassic(r, c) ==
  \/ r.resolutionMode = CLASSIC
  \/ r.resolutionMode = Undefined /\ c.mode = CLASSIC

InvokeAt(tr) == {i \in 1..Len(tr) : tr[i].ev = "invoke"}

\* the events of the call before the target is invoked
BeforeInvoke(tr) ==
  IF InvokeAt(tr) = {} THEN tr ELSE SubSeq(tr, 1, Min(InvokeAt(tr)) - 1)

RECURSIVE NamesOf(_, _)
\* the names of the events of kind ev, in order
NamesOf(tr, ev) ==
  IF tr = <<>> THEN <<>>
  ELSE (IF tr[1].ev = ev THEN <<tr[1].name>> ELSE <<>>) \o NamesOf(Tail(tr), ev)

\* the cradle view a registration with this injector hands its target
ViewFor(injector) ==
  IF injector = Undefined THEN Val("cradle", "") ELSE Val("injectorProxy", injector)

\* the call began by invoking the target with one argument, a cradle view
UsedProxyInjection ==
  /\ last.trace # <<>>
  /\ last.trace[1].ev = "invoke"
  /\ Len(last.trace[1].args) = 1
  /\ last.trace[1].args[1].k \in {"cradle", "injectorProxy"}

\* v is the value a lookup of name gives: from the container, or a local
ValueIsFor(v, name) ==
  \/ v = Val("resolved", name)
  \/ name = "a" /\ v = Val("local", "42")
  \/ name = "b" /\ v = Val("local", "100")

(***************************************************************************)
(* C1                                                                      *)
(***************************************************************************)
\* C1: over every combination of registration mode and container mode in
\* {unset, Classic, Proxy}, resolve injects positionally (Classic) exactly
\* when the registration mode is Classic, or it is unset and the container
\* mode is Classic; in every other combination the target gets the single
\* cradle argument (Proxy).
C1_ModePrecedence ==
  IsResolve =>
    /\ last.pre.resolutionMode \in ResolutionModes \cup {Undefined}
    /\ last.container.mode \in ResolutionModes \cup {Undefined}
    /\ ~UsedProxyInjection <=> SaysClassic(last.pre, last.container)

\* a Classic registration resolved against a Proxy container injects positionally
C1_Witness ==
  /\ IsResolve
  /\ last.pre.resolutionMode = CLASSIC
  /\ last.container.mode = PROXY
  /\ Len(last.pre.dependencies) = 2
  /\ InvokeAt(last.trace) # {}
  /\ ~UsedProxyInjection

(***************************************************************************)
(* C2                                                                      *)
(***************************************************************************)
\* the names looked up before the target is invoked: a lookup is one call of
\* the injector when the registration has one, else one container.resolve
LookedUp(r, tr) ==
  NamesOf(BeforeInvoke(tr), IF r.injector = Undefined THEN "resolve" ELSE "injector")

\* C2: in Classic mode with dependency names d1..dn, resolve looks the names
\* up one at a time in declared order, each lookup ending before the next
\* begins, and only after all n lookups invokes the target, once, with the n
\* values as positional arguments in that order; the target is left
\* uninvoked only when a lookup failed; with n = 0 the target is invoked with
\* no arguments and nothing else happens (no lookup, no injector call).
C2_ClassicOrder ==
  (IsResolve /\ SaysClassic(last.pre, last.container)) =>
    LET d   == last.pre.dependencies
        n   == Len(d)
        tr  == last.trace
        bef == BeforeInvoke(tr)
        k   == Len(LookedUp(last.pre, tr))
        inv == InvokeAt(tr)
    IN  /\ k <= n
        /\ LookedUp(last.pre, tr) = SubSeq(d, 1, k)
        \* a container.resolve follows the injector call of its own lookup
        /\ \A i \in 1..Len(bef) :
             (bef[i].ev = "resolve" /\ last.pre.injector # Undefined) =>
               i > 1 /\ bef[i - 1].ev = "injector" /\ bef[i - 1].name = bef[i].name
        /\ Cardinality(inv) <= 1
        /\ inv # {} =>
             /\ k = n
             /\ Len(tr) = Len(bef) + 1
             /\ Len(tr[Len(tr)].args) = n
             /\ \A i \in 1..n : ValueIsFor(tr[Len(tr)].args[i], d[i])
        /\ inv = {} =>
             /\ ret.tag = "throw"
             /\ k >= 1
             /\ ret.err \in {"AwilixResolutionError", "InjectorError"}
        /\ n = 0 => tr = <<Event("invoke", "", <<>>)>>

\* two names looked up through an injector, then the target invoked with
\* the container's value for a and the local value for b
C2_Witness ==
  /\ IsResolve
  /\ SaysClassic(last.pre, last.container)
  /\ last.pre.dependencies = <<"a", "b">>
  /\ last.pre.injector = "localsB"
  /\ Len(last.trace) = 4
  /\ last.trace[4].ev = "invoke"
  /\ last.trace[4].args = <<Val("resolved", "a"), Val("local", "100")>>
  /\ ret.tag = "return"

(***************************************************************************)
(* C3                                                                      *)
(***************************************************************************)
\* the mapping the injector returned for the lookup that event i belongs to
MappingAt(i) ==
  InjectorCall(last.pre.injector, last.container, SubSeq(last.trace, 1, i - 1))

\* C3: every lookup of a name through the injector overlay calls the
\* injector once, fresh; when the name is a key of the mapping returned
\* for this lookup, container.resolve is not called; when the name is absent
\* from that mapping, the lookup goes to container.resolve(name).
C3_OverlayLookup ==
  (IsResolve /\ last.pre.injector # Undefined) =>
    \A i \in 1..Len(last.trace) :
      (last.trace[i].ev = "injector" /\ MappingAt(i).tag = "return") =>
        LET name      == last.trace[i].name
            delegated == /\ i < Len(last.trace)
                         /\ last.trace[i + 1] = Event("resolve", name, <<>>)
        IN  /\ name \in DOMAIN MappingAt(i).own => ~delegated
            /\ name \notin DOMAIN MappingAt(i).own => delegated

(***************************************************************************)
(* C4                                                                      *)
(***************************************************************************)
\* C4: when the effective mode is not Classic, resolve invokes the target
\* once, first, with one argument whatever its dependency names are:
\* container.cradle without an injector, the injector overlay with one; no
\* container.resolve and no injector call comes before the invocation, and
\* what the target returns or throws is what resolve returns or throws.
C4_ProxySingleArgument ==
  (IsResolve /\ ~SaysClassic(last.pre, last.container)) =>
    /\ last.trace # <<>>
    /\ last.trace[1] = Event("invoke", "", <<ViewFor(last.pre.injector)>>)
    /\ InvokeAt(last.trace) = {1}
    /\ ret.tag = "return" =>
         ret.val.k = (IF last.pre.kind = "class" THEN "instance" ELSE "result")
    /\ (last.pre.fn.throws /\ Len(last.trace) = 1 + Len(last.pre.fn.uses)) =>
         ret = Throw("TargetError", <<>>)
    /\ (last.pre.fn.uses = <<>> /\ ~last.pre.fn.throws) => ret.tag = "return"

\* a two-parameter class resolved in Proxy mode with an injector: one
\* argument, the overlay
C4_Witness ==
  /\ IsResolve
  /\ ~SaysClassic(last.pre, last.container)
  /\ last.pre.kind = "class"
  /\ Len(last.pre.dependencies) = 2
  /\ last.pre.injector = "localsB"
  /\ last.trace = <<Event("invoke", "", <<Val("injectorProxy", "localsB")>>)>>
  /\ ret.tag = "return"

(***************************************************************************)
(* C5                                                                      *)
(***************************************************************************)
\* the field a fluid call writes, and the value it writes
FieldOf(op) ==
  CASE op \in {"setLifetime", "transient", "scoped", "singleton"} -> "lifetime"
    [] op \in {"setResolutionMode", "proxy", "classic"} -> "resolutionMode"
    [] op = "inject" -> "injector"

WrittenBy(call) ==
  CASE call.op = "transient" -> TRANSIENT
    [] call.op = "scoped" -> SCOPED
    [] call.op = "singleton" -> SINGLETON
    [] call.op = "proxy" -> PROXY
    [] call.op = "classic" -> CLASSIC
    [] OTHER -> call.value

\* C5: a fluid call returns the registration it was called on and writes
\* its own field only (lifetime, resolutionMode or injector), the other two
\* and the dependency names staying as they were; a resolve call changes
\* nothing of the registration and injects by the resolutionMode and the
\* injector the registration holds at that call.
C5_FluidThenResolve ==
  /\ last.op \in FluidOps =>
       /\ ret = Return(Val("registration", ToString(last.pre.id)))
       /\ reg.id = last.pre.id
       /\ reg = [last.pre EXCEPT ![FieldOf(last.op)] = WrittenBy(last)]
       /\ reg.dependencies = last.pre.dependencies
  /\ IsResolve =>
       /\ reg = last.pre
       /\ ~UsedProxyInjection <=> SaysClassic(reg, last.container)
       /\ UsedProxyInjection => last.trace[1].args[1] = ViewFor(reg.injector)
       /\ (~UsedProxyInjection /\ Len(reg.dependencies) > 0) =>
            last.trace[1].ev = (IF reg.injector = Undefined THEN "resolve" ELSE "injector")

\* a resolve that injects by a mode and an injector no build option of the
\* model carries, so that fluid calls made after the build set them
C5_Witness ==
  /\ IsResolve
  /\ reg.resolutionMode = CLASSIC
  /\ last.container.mode = PROXY
  /\ reg.injector = "alternating"
  /\ reg.lifetime = SINGLETON
  /\ reg.dependencies = <<"a", "b">>
  /\ Len(last.trace) = 3
  /\ last.trace[3].args = <<Val("local", "42"), Val("local", "100")>>

(***************************************************************************)
(* C6                                                                      *)
(***************************************************************************)
\* C6: every registration has a lifetime that is one of Transient, Scoped,
\* Singleton: after asValue, after asFunction / asClass with any options
\* (Transient when the options omit lifetime or carry an unset one), and
\* after any fluid calls.
C6_LifetimeAlwaysSet ==
  reg.kind # "none" => reg.lifetime \in Lifetimes

(***************************************************************************)
(* C7                                                                      *)
(***************************************************************************)
ExpectedKind(op) == IF op = "asFunction" THEN "function" ELSE "class"

\* C7: asFunction / asClass with a target that is not invocable throw, at
\* the build call and for every options value, a ConstructionTargetInvalid
\* error carrying the operation name, the expected kind and the runtime
\* type received; they return no registration and parse no dependencies.
\* With an invocable target they return a registration.
C7_BuildValidation ==
  last.op \in {"asFunction", "asClass"} =>
    IF last.fn.typeof # "function"
      THEN /\ ret = Throw("AwilixNotAFunctionError",
                          <<last.op, ExpectedKind(last.op), last.fn.typeof>>)
           /\ ~last.parsed
      ELSE /\ ret = Return(Val("registration", ToString(reg.id)))
           /\ reg.id = nextId - 1
           /\ reg.fn = last.fn

\* asClass of a string, with options given, throws at the build
C7_Witness ==
  /\ last.op = "asClass"
  /\ last.fn.typeof = "string"
  /\ last.opts.given
  /\ ret = Throw("AwilixNotAFunctionError", <<"asClass", "class", "string">>)
  /\ ~last.parsed

(***************************************************************************)
(* C8                                                                      *)
(***************************************************************************)
\* C8: parseDependencies returns the declared names, trimmed, in declared
\* order when the callable declares a parenthesised, brace-free, non-empty
\* parameter list, and the empty list when the declared list is empty, is
\* destructured, or is not parenthesised at all, whatever parenthesised text
\* the body holds.
C8_DeclaredNames ==
  pstate = "parsed" =>
    deps = (IF src.form \in ParenForms /\ ~src.destructured THEN src.params ELSE <<>>)

(***************************************************************************)
(* C9                                                                      *)
(***************************************************************************)
\* the failure event i of the trace raises, if it raises one
Raised(i) ==
  LET e == last.trace[i]
  IN  IF e.ev = "resolve" /\ e.name \notin last.container.known
        THEN Throw("AwilixResolutionError", <<e.name>>)
      ELSE IF e.ev = "injector" /\ last.pre.injector = "throwing"
        THEN Throw("InjectorError", <<last.pre.injector>>)
      ELSE Return(UndefinedVal)

\* C9: a failure during resolve ends the call there and is what the caller
\* gets: a container.resolve or an injector call that fails is the last
\* event of the call, so in Classic mode the later names are not looked up,
\* the target is not invoked and no lookup is repeated; a target whose body
\* throws makes resolve throw that failure; the registration is as it was
\* before the call.
C9_FailurePropagates ==
  IsResolve =>
    /\ \A i \in 1..Len(last.trace) :
         Raised(i).tag = "throw" => i = Len(last.trace) /\ ret = Raised(i)
    /\ (SaysClassic(last.pre, last.container) /\ ret.tag = "throw"
          /\ InvokeAt(last.trace) = {}) =>
         LET k == Len(LookedUp(last.pre, last.trace))
         IN  /\ k >= 1
             /\ LookedUp(last.pre, last.trace) = SubSeq(last.pre.dependencies, 1, k)
             /\ Raised(Len(last.trace)) = ret
    /\ (last.pre.fn.throws /\ InvokeAt(last.trace) # {}
          /\ Len(last.trace) = Max(InvokeAt(last.trace))) =>
         ret = Throw("TargetError", <<>>)
    /\ reg = last.pre

\* Classic, names a then b, a container that knows neither: the lookup of a
\* fails, b is not looked up, the target is not invoked
C9_Witness ==
  /\ IsResolve
  /\ SaysClassic(last.pre, last.container)
  /\ last.pre.dependencies = <<"a", "b">>
  /\ last.pre.injector = Undefined
  /\ last.container.known = {}
  /\ last.trace = <<Event("resolve", "a", <<>>)>>
  /\ ret = Throw("AwilixResolutionError", <<"a">>)

(***************************************************************************)
(* C10                                                                     *)
(***************************************************************************)
\* C10: a target whose parameter list is destructured is given the cradle
\* view (container.cradle, or the injector overlay) as its single argument
\* in every effective resolution mode, Classic included.
C10_CradleInEveryMode ==
  (IsResolve /\ last.pre.fn.destructured) =>
    /\ UsedProxyInjection
    /\ last.trace[1].args = <<ViewFor(last.pre.injector)>>

\* C10 as amended: a target whose parameter list is destructured has no
\* dependency names; in every effective mode other than Classic it is given
\* the cradle view as its single argument; in Classic mode it is invoked with
\* no arguments, after no lookup.
C10_CradleUnlessClassic ==
  (IsResolve /\ last.pre.fn.destructured) =>
    /\ last.pre.dependencies = <<>>
    /\ IF SaysClassic(last.pre, last.container)
         THEN last.trace = <<Event("invoke", "", <<>>)>>
         ELSE /\ UsedProxyInjection
              /\ last.trace[1].args = <<ViewFor(last.pre.injector)>>

\* a destructured constructor resolved in Proxy mode through an overlay
C10_Witness ==
  /\ IsResolve
  /\ last.pre.fn.destructured
  /\ last.pre.kind = "class"
  /\ ~SaysClassic(last.pre, last.container)
  /\ last.pre.injector = "localsB"
  /\ last.trace[1].args = <<Val("injectorProxy", "localsB")>>
  /\ ret.tag = "return"

====
